---- MODULE Spec2Model ----
(***************************************************************************)
(* Model of cdk/lambda/agent_handler.py: the Lambda entry point `handler`, *)
(* the retrieval tool `retrieve_study_materials`, `validate_material_id`   *)
(* and `get_materials_handler`, with the process-wide list                 *)
(* `_retrieved_sources` that survives from one invocation to the next.     *)
(*                                                                         *)
(* Python values are tagged records [t |-> tag, v |-> payload]:            *)
(*   "absent" (a key that is not in a dict), "none", "str" (a tuple of     *)
(*   characters), "num", "map" (a dict), "list", "raise" (an exception).   *)
(***************************************************************************)
EXTENDS Integers, Sequences, FiniteSets, TLC

(* ------------------------------ bounds -------------------------------- *)
\* longest result list the search service returns in the model
MaxResults == 2

(* --------------------------- Python values ---------------------------- *)
Absent == [t |-> "absent"]
None == [t |-> "none"]
Undef == [t |-> "undef"]
Str(s) == [t |-> "str", v |-> s]
Num(n) == [t |-> "num", v |-> n]
Map(m) == [t |-> "map", v |-> m]
Raise(e) == [t |-> "raise", v |-> e]
IsRaise(x) == x.t = "raise"
EmptyMap == [t |-> "map", v |-> [none |-> Absent]]

\* Python truthiness as used by `or` and `not`
Truthy(x) ==
    CASE x.t = "none" -> FALSE
      [] x.t = "absent" -> FALSE
      [] x.t = "str" -> Len(x.v) > 0
      [] x.t = "num" -> x.v # 0
      [] x.t = "list" -> Len(x.v) > 0
      [] x.t = "map" -> \E k \in DOMAIN x.v : x.v[k].t # "absent"
      [] OTHER -> TRUE

\* d.get(k, default): AttributeError when d is not a dict
Get(d, k, default) ==
    IF d.t # "map" THEN Raise("AttributeError")
    ELSE IF k \in DOMAIN d.v /\ d.v[k].t # "absent" THEN d.v[k]
    ELSE default

(* ------------------------------ strings ------------------------------- *)
S_empty == <<>>
S_materials_sub == <<"/", "m", "a", "t", "e", "r", "i", "a", "l", "s">>
S_catalog_sub == <<"m", "a", "t", "e", "r", "i", "a", "l", "s", ".", "j", "s", "o", "n">>
S_slash == "/"
S_GET == <<"G", "E", "T">>
S_OPTIONS == <<"O", "P", "T", "I", "O", "N", "S">>
S_default_session == <<"d", "e", "f", "a", "u", "l", "t", "-", "s", "e", "s", "s", "i", "o", "n">>
S_unknown_source == <<"U", "n", "k", "n", "o", "w", "n", " ", "s", "o", "u", "r", "c", "e">>
UpperChars == <<"A", "B", "C", "D", "E", "F", "G", "H", "I", "J", "K", "L", "M", "N", "O", "P", "Q", "R", "S", "T", "U", "V", "W", "X", "Y", "Z">>
LowerChars == <<"a", "b", "c", "d", "e", "f", "g", "h", "i", "j", "k", "l", "m", "n", "o", "p", "q", "r", "s", "t", "u", "v", "w", "x", "y", "z">>

\* `sub in s` on strings
Contains(s, sub) ==
    \E i \in 0..(Len(s) - Len(sub)) :
        \A j \in 1..Len(sub) : s[i + j] = sub[j]

\* str.lower()
LowerChar(c) ==
    IF \E i \in 1..Len(UpperChars) : UpperChars[i] = c
    THEN LowerChars[CHOOSE i \in 1..Len(UpperChars) : UpperChars[i] = c]
    ELSE c
Lower(s) == [i \in 1..Len(s) |-> LowerChar(s[i])]

\* s.split("/")[-1]
LastSegment(s) ==
    LET cuts == {i \in 1..Len(s) : s[i] = S_slash}
        last == IF cuts = {} THEN 0 ELSE CHOOSE i \in cuts : \A j \in cuts : j <= i
    IN  SubSeq(s, last + 1, Len(s))

\* `sub in x` for a value x: TypeError when x is None
InValue(sub, x) ==
    CASE x.t = "str" -> [t |-> "bool", v |-> Contains(x.v, sub)]
      [] OTHER -> Raise("TypeError")

(* --------------------------- sample inputs ---------------------------- *)
P_chat == <<"/", "c", "h", "a", "t">>
P_v1_materials == <<"/", "v", "1", "/", "m", "a", "t", "e", "r", "i", "a", "l", "s">>
P_materials_x == <<"/", "m", "a", "t", "e", "r", "i", "a", "l", "s", "/", "x">>
M_hi == <<"h", "i">>
Sid_s1 == <<"s", "1">>
J_full == <<"{", "\"", "m", "e", "s", "s", "a", "g", "e", "\"", ":", " ", "\"", "h", "i", "\"", ",", " ", "\"", "s", "e", "s", "s", "i", "o", "n", "I", "d", "\"", ":", " ", "\"", "s", "1", "\"", "}">>
J_sid == <<"{", "\"", "s", "e", "s", "s", "i", "o", "n", "I", "d", "\"", ":", " ", "\"", "s", "1", "\"", "}">>
J_emptymsg == <<"{", "\"", "m", "e", "s", "s", "a", "g", "e", "\"", ":", " ", "\"", "\"", "}">>
J_null == <<"n", "u", "l", "l">>

\* json.loads on the texts above; anything else is a JSONDecodeError
JsonLoads(s) ==
    CASE s = J_full -> Map([message |-> Str(M_hi), sessionId |-> Str(Sid_s1)])
      [] s = J_sid -> Map([message |-> Absent, sessionId |-> Str(Sid_s1)])
      [] s = J_emptymsg -> Map([message |-> Str(S_empty), sessionId |-> Absent])
      [] s = J_null -> None
      [] OTHER -> Raise("JSONDecodeError")

RawPaths == {Absent, Str(P_chat), Str(P_v1_materials)}
Paths == {Absent, None, Str(P_materials_x)}
RequestContexts ==
    {Absent, None, Map([http |-> Map([method |-> Str(S_OPTIONS)])])}
HttpMethods == {Absent, Str(S_GET), Str(S_OPTIONS)}
Bodies ==
    {Absent, None,
     Str(J_full), Str(J_sid), Str(J_emptymsg), Str(J_null), Str(S_empty),
     Map([message |-> Str(M_hi), sessionId |-> Absent]),
     Map([message |-> Absent, sessionId |-> Absent])}
TopMessages == {Absent, Str(M_hi)}
TopSessionIds == {Absent, Str(Sid_s1)}

\* the events the hosting environment hands to handler
Events ==
    {Map(e) : e \in [rawPath : RawPaths, path : Paths,
                     requestContext : RequestContexts, httpMethod : HttpMethods,
                     body : Bodies, message : TopMessages, sessionId : TopSessionIds]}

(* ------------------------------ responses ----------------------------- *)
NoResponse == [kind |-> "none"]
Raised(e) == [kind |-> "raised", exc |-> e]
Returned(status, hdrs, b) ==
    [kind |-> "returned", statusCode |-> status, headers |-> hdrs, body |-> b]

\* json.dumps(x): the JSON text that encodes x
JsonDumps(x) == [json |-> x]
EmptyText == [text |-> ""]

JsonCorsHeaders ==
    ("Content-Type" :> "application/json") @@ ("Access-Control-Allow-Origin" :> "*")
\* variant: the preflight answer loses its allow-origin header
PreflightHeaders_no_origin ==
    ("Access-Control-Allow-Methods" :> "GET, POST, OPTIONS")
    @@ ("Access-Control-Allow-Headers" :> "Content-Type")
    @@ ("Access-Control-Max-Age" :> "86400")

PreflightHeaders ==
    ("Access-Control-Allow-Origin" :> "*")
    @@ ("Access-Control-Allow-Methods" :> "GET, POST, OPTIONS")
    @@ ("Access-Control-Allow-Headers" :> "Content-Type")
    @@ ("Access-Control-Max-Age" :> "86400")

PreflightResponse == Returned(200, PreflightHeaders, EmptyText)
BadRequestResponse == Returned(400, JsonCorsHeaders, JsonDumps([error |-> "Message is required"]))
InternalErrorResponse(e) ==
    Returned(500, JsonCorsHeaders, JsonDumps([error |-> <<"Internal server error: ", e>>]))

\* get_materials_handler: open/json.load either succeeds, or the file is
\* missing, or anything else fails
FileOutcomes == {"ok", "FileNotFoundError", "OSError"}
Catalog == Map([topics |-> Absent])
get_materials_handler(outcome) ==
    CASE outcome = "ok" -> Returned(200, JsonCorsHeaders, JsonDumps(Catalog))
      [] outcome = "FileNotFoundError" ->
            Returned(404, JsonCorsHeaders, JsonDumps([error |-> "Materials file not found"]))
      [] OTHER ->
            Returned(500, JsonCorsHeaders, JsonDumps([error |-> <<"Error loading materials: ", outcome>>]))

(* --------------------------- retrieval tool --------------------------- *)
KB_unset == <<>>
KB_set == <<"K", "B">>
U_bio == <<"a", "/", "b", "i", "o", ".", "p", "d", "f">>
U_catalog_upper == <<"a", "/", "M", "a", "t", "e", "r", "i", "a", "l", "s", ".", "J", "S", "O", "N">>
U_catalog_dir == <<"m", "a", "t", "e", "r", "i", "a", "l", "s", ".", "j", "s", "o", "n", "/", "b", ".", "p", "d", "f">>
Txt_c == <<"c">>
Txt_score == <<"0", ".", "9">>

\* one entry of retrievalResults; scores are held in hundredths
SearchResult(score, location) ==
    Map([content |-> Map([text |-> Str(Txt_c)]), score |-> score, location |-> location])
S3Location(uri) == Map([s3Location |-> Map([uri |-> Str(uri)])])
R_catalog_upper == SearchResult(Num(50), S3Location(U_catalog_upper))
R_catalog_dir == SearchResult(Num(40), S3Location(U_catalog_dir))
R_bare == SearchResult(Absent, Absent)
R_text_score == SearchResult(Str(Txt_score), S3Location(U_bio))
Results == {R_catalog_upper, R_catalog_dir, R_bare, R_text_score}

ResultLists == UNION {[1..n -> Results] : n \in 0..MaxResults}

\* what bedrock_agent_runtime.retrieve does: it raises, or it returns a
\* response with or without retrievalResults
SearchOutcomes ==
    {Raise("ClientError"), Map([retrievalResults |-> Absent])}
    \cup {Map([retrievalResults |-> [t |-> "list", v |-> rs]]) : rs \in ResultLists}

\* float(score)
Float(score) ==
    CASE score.t = "num" -> score
      [] score.t = "str" /\ score.v = Txt_score -> Num(90)
      [] score.t = "str" -> Raise("ValueError")
      [] OTHER -> Raise("TypeError")

\* f"{score:.2f}": only a number takes the format
FormatScore(score) ==
    CASE score.t = "num" -> [t |-> "text", v |-> <<score.v>>]
      [] score.t = "str" -> Raise("ValueError")
      [] OTHER -> Raise("TypeError")

Text(parts) == [t |-> "text", v |-> parts]

\* the body of the for loop over enumerate(results, 1), from index idx on;
\* exc is the exception that ended the loop, if any
RECURSIVE ProcessResults(_, _, _, _)
ProcessResults(results, idx, sources, formatted_results) ==
    IF idx > Len(results)
    THEN [sources |-> sources, formatted_results |-> formatted_results, exc |-> None]
    ELSE
      LET result == results[idx]
          content == Get(Get(result, "content", EmptyMap), "text", Str(S_empty))
          score == Get(result, "score", Num(0))
          location == Get(result, "location", EmptyMap)
          source_uri == Get(Get(location, "s3Location", EmptyMap), "uri", Str(S_unknown_source))
          document_name ==
              IF Contains(source_uri.v, <<S_slash>>)
              THEN Str(LastSegment(source_uri.v)) ELSE source_uri
          fscore == Float(score)
          appended ==
              Append(sources,
                     [content |-> content, score |-> fscore,
                      source |-> source_uri, documentName |-> document_name])
          shown == FormatScore(score)
      IN  IF IsRaise(fscore)
          THEN [sources |-> sources, formatted_results |-> formatted_results, exc |-> fscore]
          ELSE IF IsRaise(shown)
          THEN [sources |-> appended, formatted_results |-> formatted_results, exc |-> shown]
          ELSE ProcessResults(results, idx + 1, appended,
                              Append(formatted_results,
                                     <<idx, shown.v, content.v, document_name.v>>))

\* variant: the except branch forgets to clear the list
ToolExcept_keep(sources, e) ==
    [sources |-> sources, output |-> Text(<<"Error retrieving from knowledge base: ", e.v>>)]

\* the except branch of the tool: the list is cleared, the error is returned
ToolExcept(sources, e) ==
    [sources |-> <<>>, output |-> Text(<<"Error retrieving from knowledge base: ", e.v>>)]

\* the branch for a response without results
ToolNoResults(sources) ==
    [sources |-> <<>>,
     output |-> Text(<<"No relevant information found in the study materials for this query.">>)]

\* variant: the loop appends to what the list already holds
ToolLoopStart_accumulate(sources) == sources

\* the list the loop starts from
ToolLoopStart(sources) == <<>>

\* retrieve_study_materials: given the configured knowledge base, the list
\* before the call and what the search does, the list after the call and the
\* value returned
retrieve_study_materials(kb, sources, search) ==
    IF ~Truthy(Str(kb))
    THEN [sources |-> sources,
          output |-> Text(<<"Error: Knowledge Base not configured. Please set KNOWLEDGE_BASE_ID environment variable.">>)]
    ELSE IF IsRaise(search) THEN ToolExcept(sources, search)
    ELSE
      LET results == Get(search, "retrievalResults", [t |-> "list", v |-> <<>>])
      IN  IF ~Truthy(results) THEN ToolNoResults(sources)
          ELSE
            LET done == ProcessResults(results.v, 1, ToolLoopStart(sources), <<>>)
            IN  IF IsRaise(done.exc) THEN ToolExcept(done.sources, done.exc)
                ELSE [sources |-> done.sources, output |-> Text(done.formatted_results)]

(* -------------------------- response shaping -------------------------- *)
Id_photosynthesis == <<"p", "h", "o", "t", "o", "s", "y", "n", "t", "h", "e", "s", "i", "s">>
Id_cell_respiration == <<"c", "e", "l", "l", "_", "r", "e", "s", "p", "i", "r", "a", "t", "i", "o", "n">>
Id_mitosis == <<"m", "i", "t", "o", "s", "i", "s">>
Id_meiosis == <<"m", "e", "i", "o", "s", "i", "s">>
Txt_reply == <<"o", "k">>

valid_ids == {Id_photosynthesis, Id_cell_respiration, Id_mitosis}

\* variant: the allow-list test is dropped
validate_material_id_unchecked(material_id) == material_id

validate_material_id(material_id) ==
    IF material_id.t = "none" THEN None
    ELSE IF material_id.v \in valid_ids THEN material_id
    ELSE None

\* variant: the name is compared without .lower()
KeepSource_case_sensitive(source) ==
    ~Contains(source.documentName.v, S_catalog_sub)

\* the test of the comprehension that builds filtered_sources
KeepSource(source) ==
    ~Contains(Lower(source.documentName.v), S_catalog_sub)

FilterSources(sources) == SelectSeq(sources, KeepSource)

\* response_data, with the sources key only for a non-empty list
ResponseData(structured_response, sid, sources) ==
    LET filtered_sources == FilterSources(sources)
        response_data ==
            [response |-> structured_response.v.response,
             sessionId |-> sid,
             relevantMaterialId |-> validate_material_id(structured_response.v.relevant_material_id)]
    IN  IF Len(filtered_sources) > 0
        THEN [response |-> response_data.response,
              sessionId |-> response_data.sessionId,
              relevantMaterialId |-> response_data.relevantMaterialId,
              sources |-> filtered_sources]
        ELSE response_data

\* what agent(...) does once its tool calls are over: it raises, or its result
\* carries a structured output, or none
MaterialIdValues ==
    {None, Str(Id_photosynthesis), Str(Id_cell_respiration), Str(Id_mitosis),
     Str(Id_meiosis), Str(S_empty)}
AgentOutcomes ==
    {Raise("ModelError"), None}
    \cup {[t |-> "structured", v |-> [response |-> Str(Txt_reply), relevant_material_id |-> id]] :
            id \in MaterialIdValues}

(* ------------------------------- state -------------------------------- *)
VARIABLES
    KNOWLEDGE_BASE_ID,   \* module constant read from the environment at import
    retrieved_sources,   \* the module global _retrieved_sources
    pc,                  \* where handler stands
    event,               \* handler's argument, until it is last read
    path, method,        \* handler's locals
    message, session_id,
    structured_response, \* result.structured_output
    branch,              \* which of the three routes took the request
    response,            \* what handler gave back to its caller
    tool_output,         \* what the last tool call returned to the agent
    entry_sources,       \* history: was the global non-empty when the invocation began
    pre_call_sources,    \* history: was the global non-empty before the last tool call
    last_search          \* history: what the search did in the last tool call

vars == <<KNOWLEDGE_BASE_ID, retrieved_sources, pc, event, path, method, message,
          session_id, structured_response, branch, response, tool_output, entry_sources,
          pre_call_sources, last_search>>

locals == <<path, method, message, session_id>>
history == <<entry_sources, pre_call_sources, last_search>>

Init ==
    /\ KNOWLEDGE_BASE_ID \in {KB_unset, KB_set}
    /\ retrieved_sources = <<>>
    /\ pc = "idle"
    /\ event = Undef
    /\ path = Undef /\ method = Undef /\ message = Undef /\ session_id = Undef
    /\ structured_response = Undef
    /\ branch = "none"
    /\ response = NoResponse
    /\ tool_output = Undef
    /\ entry_sources = FALSE
    /\ pre_call_sources = FALSE
    /\ last_search = Undef

(* ------------------------------ handler ------------------------------- *)
\* the hosting environment calls handler(event, context)
Receive ==
    /\ pc = "idle"
    /\ pc' = "route"
    /\ \E e \in Events : event' = e
    /\ entry_sources' = (Len(retrieved_sources) > 0)
    /\ UNCHANGED <<KNOWLEDGE_BASE_ID, structured_response, retrieved_sources, locals, branch,
                   response,
                   tool_output, pre_call_sources, last_search>>

\* path = event.get("rawPath") or event.get("path", "")
ExtractPath(e) ==
    LET raw == Get(e, "rawPath", None)
    IN  IF Truthy(raw) THEN raw ELSE Get(e, "path", Str(S_empty))

\* method = event.get("requestContext", {}).get("http", {}).get("method")
\*          or event.get("httpMethod", "")
ExtractMethod(e) ==
    LET ctx == Get(e, "requestContext", EmptyMap)
        http == IF IsRaise(ctx) THEN ctx ELSE Get(ctx, "http", EmptyMap)
        m == IF IsRaise(http) THEN http ELSE Get(http, "method", None)
    IN  IF IsRaise(m) THEN m
        ELSE IF Truthy(m) THEN m ELSE Get(e, "httpMethod", Str(S_empty))

Branch(b) == [t |-> "branch", v |-> b]

\* the two tests that choose the route, in the order the code makes them
RouteOf(p, m) ==
    LET in_materials == InValue(S_materials_sub, p)
    IN  IF IsRaise(in_materials) THEN in_materials
        ELSE IF in_materials.v /\ m = Str(S_GET) THEN Branch("materials")
        ELSE IF m = Str(S_OPTIONS) THEN Branch("options")
        ELSE Branch("chat")

\* handler up to the try statement
Route ==
    /\ pc = "route"
    /\ LET p == ExtractPath(event)
           m == ExtractMethod(event)
           r == IF IsRaise(m) THEN m ELSE RouteOf(p, m)
       IN  /\ path' = p
           /\ method' = m
           /\ \/ /\ IsRaise(r)
                 /\ branch' = "raised"
                 /\ response' = Raised(r.v)
                 /\ pc' = "done"
              \/ /\ r = Branch("materials")
                 /\ branch' = "materials"
                 /\ \E outcome \in FileOutcomes : response' = get_materials_handler(outcome)
                 /\ pc' = "done"
              \/ /\ r = Branch("options")
                 /\ branch' = "options"
                 /\ response' = PreflightResponse
                 /\ pc' = "done"
              \/ /\ r = Branch("chat")
                 /\ branch' = "chat"
                 /\ response' = response
                 /\ pc' = "parse"
    /\ UNCHANGED <<KNOWLEDGE_BASE_ID, structured_response, retrieved_sources, event, message,
                   session_id,
                   tool_output, history>>

\* variant: an absent body defaults to an empty dict
BodyDefault_empty(e) == EmptyMap

\* the default of event.get("body", event)
BodyDefault(e) == e

\* the body the chat flow works on
ParsedBody(e) ==
    IF Get(e, "body", None).t = "str"
    THEN JsonLoads(Get(e, "body", Str(<<"{", "}">>)).v)
    ELSE Get(e, "body", BodyDefault(e))

\* the first statements of the try: body, message, session_id
ParseBody ==
    /\ pc = "parse"
    /\ LET body == ParsedBody(event)
           msg == IF IsRaise(body) THEN body ELSE Get(body, "message", Str(S_empty))
           sid == IF IsRaise(msg) THEN msg ELSE Get(body, "sessionId", Str(S_default_session))
       IN  IF IsRaise(sid)
           THEN /\ response' = InternalErrorResponse(sid.v)
                /\ pc' = "done"
                /\ UNCHANGED <<message, session_id>>
           ELSE /\ message' = msg
                /\ session_id' = sid
                /\ pc' = "validate"
                /\ UNCHANGED response
    /\ UNCHANGED <<KNOWLEDGE_BASE_ID, structured_response, retrieved_sources, event, path,
                   method, branch,
                   tool_output, history>>

\* if not message: return the 400 response
Validate ==
    /\ pc = "validate"
    /\ IF ~Truthy(message)
       THEN /\ response' = BadRequestResponse
            /\ pc' = "done"
       ELSE /\ pc' = "reset"
            /\ UNCHANGED response
    /\ UNCHANGED <<KNOWLEDGE_BASE_ID, structured_response, retrieved_sources, event, locals,
                   branch,
                   tool_output, history>>

\* variant: the reset is forgotten
ResetSources_keep ==
    /\ pc = "reset"
    /\ retrieved_sources' = retrieved_sources
    /\ event' = Undef
    /\ pc' = "construct"
    /\ UNCHANGED <<KNOWLEDGE_BASE_ID, structured_response, locals, branch, response,
                   tool_output, history>>

\* _retrieved_sources = [] ; event is not read from here on
ResetSources ==
    /\ pc = "reset"
    /\ retrieved_sources' = <<>>
    /\ event' = Undef
    /\ pc' = "construct"
    /\ UNCHANGED <<KNOWLEDGE_BASE_ID, structured_response, locals, branch, response,
                   tool_output, history>>

\* agent = create_study_buddy_agent(session_id): the constructors it calls
\* succeed or raise
Construct ==
    /\ pc = "construct"
    /\ \E ok \in BOOLEAN :
          IF ok
          THEN /\ pc' = "agent"
               /\ UNCHANGED response
          ELSE /\ response' = InternalErrorResponse("ConstructError")
               /\ pc' = "done"
    /\ UNCHANGED <<KNOWLEDGE_BASE_ID, structured_response, retrieved_sources, event, locals,
                   branch,
                   tool_output, history>>

\* the running agent calls retrieve_study_materials
ToolCall ==
    /\ pc = "agent"
    /\ \E search \in SearchOutcomes :
          LET r == retrieve_study_materials(KNOWLEDGE_BASE_ID, retrieved_sources, search)
          IN  /\ retrieved_sources' = r.sources
              /\ tool_output' = r.output
              /\ last_search' = IF Truthy(Str(KNOWLEDGE_BASE_ID)) THEN search ELSE Absent
    /\ pre_call_sources' = (Len(retrieved_sources) > 0)
    /\ UNCHANGED <<KNOWLEDGE_BASE_ID, structured_response, pc, event, locals, branch, response,
                   entry_sources>>

\* the rest of the try once agent(...) is over, and the except clause
ChatResponse(out, sid, sources) ==
    IF IsRaise(out) THEN InternalErrorResponse(out.v)
    ELSE IF out.t # "structured" THEN InternalErrorResponse("AttributeError")
    ELSE Returned(200, JsonCorsHeaders, JsonDumps(ResponseData(out, sid, sources)))

Respond ==
    /\ pc = "agent"
    /\ \E out \in AgentOutcomes :
          /\ structured_response' = out
          /\ response' = ChatResponse(out, session_id, retrieved_sources)
    /\ pc' = "done"
    /\ UNCHANGED <<KNOWLEDGE_BASE_ID, retrieved_sources, event, locals, branch,
                   tool_output, history>>

\* the caller has the response (or the exception); the process waits for the
\* next invocation with only the module globals left
Return ==
    /\ pc = "done"
    /\ pc' = "idle"
    /\ event' = Undef
    /\ path' = Undef /\ method' = Undef /\ message' = Undef /\ session_id' = Undef
    /\ structured_response' = Undef
    /\ branch' = "none"
    /\ response' = NoResponse
    /\ tool_output' = Undef
    /\ entry_sources' = FALSE
    /\ pre_call_sources' = FALSE
    /\ last_search' = Undef
    /\ UNCHANGED <<KNOWLEDGE_BASE_ID, retrieved_sources>>

Next ==
    \/ Receive
    \/ Route
    \/ ParseBody
    \/ Validate
    \/ ResetSources
    \/ Construct
    \/ ToolCall
    \/ Respond
    \/ Return

Spec == Init /\ [][Next]_vars

(* ------------------------------ properties ---------------------------- *)
ChatDone == pc = "done" /\ branch = "chat" /\ response.kind = "returned"
ChatOk == ChatDone /\ response.statusCode = 200
BodyData == response.body.json
HasKey(d, k) == k \in DOMAIN d
KbConfigured == KNOWLEDGE_BASE_ID # KB_unset

\* C1: when the agent is about to be constructed, and when it starts running
\* before any tool call, the shared passage list is empty, whatever the
\* previous invocation left in it.
C1_ResetBeforeAgent ==
    (pc = "construct" \/ (pc = "agent" /\ last_search.t = "undef"))
        => retrieved_sources = <<>>

C1_Witness == pc = "agent" /\ last_search.t = "undef" /\ entry_sources

\* C2: once handler is over for an event that is neither a catalog request
\* nor a preflight, the caller holds a response object; when a step failed it
\* is the status-500 response with an error key. No exception reaches the
\* caller.
C2_NoExceptionPropagates ==
    (pc = "done" /\ branch \notin {"materials", "options"})
        => /\ response.kind = "returned"
           /\ response.statusCode \in {200, 400, 500}
           /\ response.statusCode = 500 => HasKey(BodyData, "error")

\* the message a request carries, by the shape of its body: none for a
\* missing or null body, the message key of a mapping or of a JSON object
RequestMessageMissing(e) ==
    LET b == e.v.body
        decoded == IF b.t = "str" THEN JsonLoads(b.v) ELSE b
    IN  CASE b.t \in {"absent", "none"} -> TRUE
          [] decoded.t = "map" -> ~Truthy(Get(decoded, "message", Str(S_empty)))
          [] OTHER -> FALSE

\* C3: a chat request with an empty or absent message is answered with
\* status 400 and an error body, and handler never reaches the construction
\* of the agent for it.
C3_MissingMessageIs400 ==
    /\ (pc = "done" /\ branch = "chat" /\ event.t = "map" /\ RequestMessageMissing(event))
         => /\ response.kind = "returned"
            /\ response.statusCode = 400
            /\ HasKey(BodyData, "error")
    /\ (pc = "reset" /\ event.t = "map") => ~RequestMessageMissing(event)

AllowedMaterialIds == {Str(Id_photosynthesis), Str(Id_cell_respiration), Str(Id_mitosis)}

\* C4: in a status-200 chat response relevantMaterialId is null or one of the
\* three topic ids: the agent's value when it is one of the three, null
\* otherwise.
C4_MaterialIdAllowed ==
    ChatOk =>
        LET raw == structured_response.v.relevant_material_id
            emitted == BodyData.relevantMaterialId
        IN  /\ emitted \in AllowedMaterialIds \cup {None}
            /\ raw \in AllowedMaterialIds => emitted = raw
            /\ raw \notin AllowedMaterialIds => emitted = None

C4_Witness ==
    ChatOk /\ structured_response.v.relevant_material_id = Str(Id_meiosis)

\* a document name that contains "materials.json" in any letter case
IsCatalogName(name) ==
    \E i \in 1..Len(name) :
        /\ i + Len(S_catalog_sub) - 1 <= Len(name)
        /\ \A j \in 1..Len(S_catalog_sub) : LowerChar(name[i + j - 1]) = S_catalog_sub[j]

RECURSIVE WithoutCatalog(_)
WithoutCatalog(passages) ==
    IF passages = <<>> THEN <<>>
    ELSE IF IsCatalogName(Head(passages).documentName.v) THEN WithoutCatalog(Tail(passages))
    ELSE <<Head(passages)>> \o WithoutCatalog(Tail(passages))

\* the sources key of a response body carries exactly the list expected, and
\* is missing when that list is empty
EmitsSources(expected) ==
    IF expected = <<>> THEN ~HasKey(BodyData, "sources")
    ELSE HasKey(BodyData, "sources") /\ BodyData.sources = expected

\* C5: in a status-200 chat response sources is the shared passage list as
\* the agent left it, without the entries whose document name contains
\* "materials.json" in any letter case, in the same order; the key is left
\* out when nothing remains.
C5_SourcesFiltered == ChatOk => EmitsSources(WithoutCatalog(retrieved_sources))

C5_Witness ==
    /\ ChatOk
    /\ Len(retrieved_sources) = 2
    /\ HasKey(BodyData, "sources")
    /\ Len(BodyData.sources) = 1

\* C6: routing is total and ordered: for every event, once the routing
\* tests are over exactly one of the three branches has taken the request,
\* decided by (path, method) in this order: the catalog iff the path contains
\* /materials and the method is GET; else the preflight (status 200, empty
\* body, the three allow headers) iff the method is OPTIONS, on any path;
\* else the chat flow.
C6_RouteTotal ==
    pc \notin {"idle", "route"} =>
        /\ branch \in {"materials", "options", "chat"}
        /\ LET catalog == Contains(path.v, S_materials_sub) /\ method = Str(S_GET)
               preflight == ~catalog /\ method = Str(S_OPTIONS)
           IN  /\ (branch = "materials") <=> catalog
               /\ (branch = "options") <=> preflight
               /\ (branch = "chat") <=> (~catalog /\ ~preflight)
               /\ branch = "options" =>
                    /\ response.kind = "returned"
                    /\ response.statusCode = 200
                    /\ response.body = EmptyText
                    /\ {"Access-Control-Allow-Methods", "Access-Control-Allow-Headers",
                        "Access-Control-Max-Age"} \subseteq DOMAIN response.headers

HasHeader(r, name, value) == name \in DOMAIN r.headers /\ r.headers[name] = value

\* C7 as stated: every response carries both headers.
C7_Original ==
    response.kind = "returned" =>
        /\ HasHeader(response, "Content-Type", "application/json")
        /\ HasHeader(response, "Access-Control-Allow-Origin", "*")

\* C7: every response carries Access-Control-Allow-Origin: *, and every
\* response but the OPTIONS preflight carries Content-Type: application/json;
\* the preflight has no Content-Type header.
C7_Amended ==
    response.kind = "returned" =>
        /\ HasHeader(response, "Access-Control-Allow-Origin", "*")
        /\ branch # "options" => HasHeader(response, "Content-Type", "application/json")
        /\ branch = "options" => "Content-Type" \notin DOMAIN response.headers

C7_Witness == pc = "done" /\ branch = "options" /\ response.kind = "returned"

\* a score that float() and the .2f format both take
GoodScore(result) == result.v.score.t \in {"absent", "num"}

\* the last search failed, or came back without results, or one of its
\* results cannot be processed
SearchFailed == last_search.t = "raise"
SearchEmpty ==
    /\ last_search.t = "map"
    /\ ~Truthy(Get(last_search, "retrievalResults", None))
ProcessingFailed ==
    /\ last_search.t = "map"
    /\ Truthy(Get(last_search, "retrievalResults", None))
    /\ \E i \in 1..Len(last_search.v.retrievalResults.v) :
          ~GoodScore(last_search.v.retrievalResults.v[i])

\* C8: after a tool call in which the search failed, a result could not be
\* processed, or nothing was found, the tool has returned a text and the
\* shared passage list is empty, whatever it held before the call.
C8_FailedCallLeavesNothing ==
    (pc \in {"agent", "done"} /\ (SearchFailed \/ SearchEmpty \/ ProcessingFailed))
        => /\ retrieved_sources = <<>>
           /\ tool_output.t = "text"

C8_Witness ==
    /\ pc = "agent" /\ pre_call_sources /\ ProcessingFailed
    /\ Len(last_search.v.retrievalResults.v) = 2
    /\ GoodScore(last_search.v.retrievalResults.v[1])

BodyAbsent == pc = "validate" /\ event.v.body.t = "absent"

\* C9 as stated: with no body key the message is absent and the session is
\* the default one, whatever the event carries at its top level.
C9_Original ==
    BodyAbsent => message = Str(S_empty) /\ session_id = Str(S_default_session)

\* C9: with no body key the event itself is the body: message and sessionId
\* are the event's own top-level keys, with "" and "default-session" for a
\* key the event does not have.
C9_Amended ==
    BodyAbsent =>
        /\ message = Get(event, "message", Str(S_empty))
        /\ session_id = Get(event, "sessionId", Str(S_default_session))

C9_Witness ==
    BodyAbsent /\ event.v.message = Str(M_hi) /\ event.v.sessionId = Str(Sid_s1)

\* the passages of the last tool call taken alone
LastCallPassages ==
    IF SearchFailed \/ SearchEmpty \/ ProcessingFailed THEN <<>>
    ELSE ProcessResults(last_search.v.retrievalResults.v, 1, <<>>, <<>>).sources

\* C10: with the knowledge base configured, after any sequence of tool calls
\* the shared list holds the passages of the last call alone, and a
\* status-200 response cites those and nothing from an earlier call or an
\* earlier invocation: no sources at all when the last call failed or found
\* nothing.
C10_LastCallOnly ==
    (pc \in {"agent", "done"} /\ KbConfigured /\ last_search.t \in {"raise", "map"})
        => /\ retrieved_sources = LastCallPassages
           /\ ChatOk => EmitsSources(WithoutCatalog(LastCallPassages))

C10_Witness ==
    /\ ChatOk /\ KbConfigured /\ entry_sources /\ pre_call_sources
    /\ last_search.t = "map" /\ Len(LastCallPassages) = 1
    /\ HasKey(BodyData, "sources")

====
